---- MODULE Spec2Model ----
(* Model of create_placeholder.py: a straight-line script that allocates an   *)
(* 800x400 canvas, draws a five-line border, selects fonts (preferred         *)
(* TrueType pair or built-in fallback), draws a centred title and subtitle,   *)
(* saves the canvas to hybrid-syndicate.png and prints a confirmation.        *)
(* The environment of a run is the set of readable font files, the text       *)
(* metrics of each font, whether the output path can be opened for writing,   *)
(* and the file left on disk by an earlier run.                               *)
EXTENDS Integers, Sequences, FiniteSets

\* ---------------------------------------------------------------- bounds
MaxRuns == 2
MaxBox == 2

\* ------------------------------------------------------ program constants
width == 800
height == 400
background == "#0a0a0a"
border_color == "#00f0ff"
text == "HYBRID SYNDICATE"
subtext == "Replace with hybrid-syndicate.png"
text_fill == "#00f0ff"
subtext_fill == "#39ff14"
BoldPath == "/usr/share/fonts/truetype/dejavu/DejaVuSans-Bold.ttf"
RegularPath == "/usr/share/fonts/truetype/dejavu/DejaVuSans.ttf"
OutputPath == "hybrid-syndicate.png"
Confirmation == "Placeholder image created: hybrid-syndicate.png"

\* ------------------------------------------------------------ font values
NoFont == [kind |-> "unset", path |-> "", size |-> 0]
BoldFont == [kind |-> "truetype", path |-> BoldPath, size |-> 60]
RegularFont == [kind |-> "truetype", path |-> RegularPath, size |-> 24]
DefaultFont == [kind |-> "default", path |-> "", size |-> 0]

\* ---------------------------------------------------- environment domains
FontPaths == {BoldPath, RegularPath}

\* (text, font) pairs the script can hand to textbbox
MeasuredPairs ==
    {<<text, BoldFont>>, <<text, DefaultFont>>,
     <<subtext, RegularFont>>, <<subtext, DefaultFont>>}

\* the k-th candidate bounding box (left, top, right, bottom) of a text
\* measured at origin (0, 0): left/top bearings k and 2k, which need not be
\* zero, and extents 610x57, 707x62, 804x67, ... so that even and odd widths
\* and a text wider than the canvas all occur
Box(k) == <<k, 2 * k, k + (610 + 97 * k), 2 * k + (57 + 5 * k)>>

\* the boxes textbbox may answer
BBoxes == {Box(k) : k \in 0..MaxBox}

NoBBox == <<0, 0, 0, 0>>

\* ------------------------------------------------------------------ state
VARIABLES
    pc,             \* position of the run in the script
    run,            \* number of the current run (1-based)
    image,          \* the canvas: size, background, sequence of draw operations
    i,              \* border loop variable
    font, subfont,
    bbox, text_width, text_height, text_x, text_y,
    bbox2, subtext_width, subtext_x, subtext_y,
    stdout,         \* lines printed by the current run
    calls,          \* library calls made by the current run, in order
    file,           \* <<>> when the output file is absent, else <<saved canvas>>
    fontFiles,      \* font paths readable during the current run
    writable,       \* whether the output path can be opened for writing
    metrics,        \* what textbbox has answered for each (text, font) pair
                    \* (NoBBox: not measured yet)
    prev            \* <<>> in the first run, else <<final state of previous run>>

vars == <<pc, run, image, i, font, subfont, bbox, text_width, text_height,
          text_x, text_y, bbox2, subtext_width, subtext_x, subtext_y,
          stdout, calls, file, fontFiles, writable, metrics, prev>>

layout == <<bbox, text_width, text_height, text_x, text_y,
            bbox2, subtext_width, subtext_x, subtext_y>>

disk == <<file, fontFiles, writable, prev, run>>

env == <<disk, metrics>>

NoImage == [w |-> 0, h |-> 0, bg |-> "", ops |-> <<>>]

Call(op, arg) == [op |-> op, arg |-> arg]

\* --------------------------------------------------------- pure helpers
\* mutant: the size tuple passed as (height, width)
NewCanvasSwapped(w, h, color) == [w |-> h, h |-> w, bg |-> color, ops |-> <<>>]

\* Image.new('RGB', (width, height), color)
NewCanvas(w, h, color) == [w |-> w, h |-> h, bg |-> color, ops |-> <<>>]

\* mutant: the far corner one pixel off, [i, i, width-i, height-i]
BorderRectOffByOne(k) == <<k, k, width - k, height - k>>

\* [i, i, width-1-i, height-1-i]
BorderRect(k) == <<k, k, width - 1 - k, height - 1 - k>>

\* draw.rectangle / draw.text append an operation; the canvas size is untouched
Drawn(img, op) == [img EXCEPT !.ops = Append(@, op)]

\* ImageFont.truetype(path, size) succeeds iff the file can be read
CanLoad(path) == path \in fontFiles

\* draw.textbbox((0, 0), t, font=f): a function of the text and the font. The
\* first measurement of a pair may answer any box, later ones repeat it.
textbbox(t, f) ==
    IF metrics[<<t, f>>] = NoBBox THEN BBoxes ELSE {metrics[<<t, f>>]}

\* mutant: missing parentheses, width - text_width // 2
CenteredNoParens(total, extent) == total - (extent \div 2)

\* (width - text_width) // 2 ; Python's // and TLA+'s \div both floor
Centered(total, extent) == (total - extent) \div 2

\* (height - text_height) // 2 - 40
TextY(total, extent) == (total - extent) \div 2 - 40

\* mutant: the subtitle is placed from the top of the canvas, text_height + 20
SubtextYFromTop(ty, th) == th + 20

\* text_y + text_height + 20
SubtextY(ty, th) == ty + th + 20

\* mutant: exclusive creation, open(path, "xb"), refuses an existing file
CanSaveExclusive(existing, canWrite) == canWrite /\ existing = <<>>

\* open(path, "w+b") inside image.save: creates or truncates, so an existing
\* file is no obstacle
CanSave(existing, canWrite) == canWrite

\* ------------------------------------------------------------------ Init
Init ==
    /\ pc = "new"
    /\ run = 1
    /\ image = NoImage
    /\ i = 0
    /\ font = NoFont
    /\ subfont = NoFont
    /\ bbox = NoBBox /\ text_width = 0 /\ text_height = 0
    /\ text_x = 0 /\ text_y = 0
    /\ bbox2 = NoBBox /\ subtext_width = 0
    /\ subtext_x = 0 /\ subtext_y = 0
    /\ stdout = <<>>
    /\ calls = <<>>
    /\ file = <<>>
    /\ fontFiles \in SUBSET FontPaths
    /\ writable \in BOOLEAN
    /\ metrics = [p \in MeasuredPairs |-> NoBBox]
    /\ prev = <<>>

\* --------------------------------------------------------------- actions
\* mutant: the canvas is opened from the existing output file when there is one
NewImageOverExisting ==
    /\ pc = "new"
    /\ image' = IF file # <<>> THEN file[1]
                 ELSE NewCanvas(width, height, background)
    /\ calls' = Append(calls, Call("Image.new", ""))
    /\ i' = 0
    /\ pc' = "border"
    /\ UNCHANGED <<font, subfont, layout, stdout, env>>

\* lines 5-7: allocate the canvas
NewImage ==
    /\ pc = "new"
    /\ image' = NewCanvas(width, height, background)
    /\ calls' = Append(calls, Call("Image.new", ""))
    /\ i' = 0
    /\ pc' = "border"
    /\ UNCHANGED <<font, subfont, layout, stdout, env>>

\* lines 11-12: one iteration of the border loop
DrawBorder ==
    /\ pc = "border"
    /\ i < 5
    /\ image' = Drawn(image, [op |-> "rectangle", xy |-> BorderRect(i),
                              outline |-> border_color])
    /\ calls' = Append(calls, Call("rectangle", ""))
    /\ i' = i + 1
    /\ UNCHANGED <<pc, font, subfont, layout, stdout, env>>

\* line 11: range(5) exhausted; i keeps its last value
BorderDone ==
    /\ pc = "border"
    /\ i = 5
    /\ i' = 4
    /\ pc' = "loadBold"
    /\ UNCHANGED <<image, calls, font, subfont, layout, stdout, env>>

\* line 20: the bold font loads
LoadBoldOK ==
    /\ pc = "loadBold"
    /\ CanLoad(BoldPath)
    /\ font' = BoldFont
    /\ calls' = Append(calls, Call("truetype", BoldPath))
    /\ pc' = "loadRegular"
    /\ UNCHANGED <<image, i, subfont, layout, stdout, env>>

\* line 20 raises; the bare except of line 22 catches it
LoadBoldFail ==
    /\ pc = "loadBold"
    /\ ~CanLoad(BoldPath)
    /\ calls' = Append(calls, Call("truetype", BoldPath))
    /\ pc' = "fallback"
    /\ UNCHANGED <<image, i, font, subfont, layout, stdout, env>>

\* line 21: the regular font loads
LoadRegularOK ==
    /\ pc = "loadRegular"
    /\ CanLoad(RegularPath)
    /\ subfont' = RegularFont
    /\ calls' = Append(calls, Call("truetype", RegularPath))
    /\ pc' = "measureTitle"
    /\ UNCHANGED <<image, i, font, layout, stdout, env>>

\* mutant: no handler around line 21, the error ends the run
LoadRegularFailUncaught ==
    /\ pc = "loadRegular"
    /\ ~CanLoad(RegularPath)
    /\ calls' = Append(calls, Call("truetype", RegularPath))
    /\ pc' = "error"
    /\ UNCHANGED <<image, i, font, subfont, layout, stdout, env>>

\* line 21 raises; the bare except of line 22 catches it
LoadRegularFail ==
    /\ pc = "loadRegular"
    /\ ~CanLoad(RegularPath)
    /\ calls' = Append(calls, Call("truetype", RegularPath))
    /\ pc' = "fallback"
    /\ UNCHANGED <<image, i, font, subfont, layout, stdout, env>>

\* mutant: the handler replaces only the font that is still missing
FallbackMissingOnly ==
    /\ pc = "fallback"
    /\ font' = IF font = NoFont THEN DefaultFont ELSE font
    /\ subfont' = DefaultFont
    /\ calls' = calls \o <<Call("load_default", ""), Call("load_default", "")>>
    /\ pc' = "measureTitle"
    /\ UNCHANGED <<image, i, layout, stdout, env>>

\* lines 23-24: both fonts become the built-in font
Fallback ==
    /\ pc = "fallback"
    /\ font' = DefaultFont
    /\ subfont' = DefaultFont
    /\ calls' = calls \o <<Call("load_default", ""), Call("load_default", "")>>
    /\ pc' = "measureTitle"
    /\ UNCHANGED <<image, i, layout, stdout, env>>

\* lines 27-31: measure the title and compute its position
MeasureTitle ==
    /\ pc = "measureTitle"
    /\ \E b \in textbbox(text, font) :
       LET tw == b[3] - b[1]
           th == b[4] - b[2]
       IN /\ bbox' = b
          /\ metrics' = [metrics EXCEPT ![<<text, font>>] = b]
          /\ text_width' = tw
          /\ text_height' = th
          /\ text_x' = Centered(width, tw)
          /\ text_y' = TextY(height, th)
    /\ calls' = Append(calls, Call("textbbox", text))
    /\ pc' = "drawTitle"
    /\ UNCHANGED <<image, i, font, subfont, bbox2, subtext_width, subtext_x,
                   subtext_y, stdout, disk>>

\* mutant: the subtitle block is skipped, the canvas is saved after the title
DrawTitleThenSave ==
    /\ pc = "drawTitle"
    /\ image' = Drawn(image, [op |-> "text", xy |-> <<text_x, text_y>>,
                              text |-> text, fill |-> text_fill, font |-> font])
    /\ calls' = Append(calls, Call("text", text))
    /\ pc' = "save"
    /\ UNCHANGED <<i, font, subfont, layout, stdout, env>>

\* line 33: draw the title
DrawTitle ==
    /\ pc = "drawTitle"
    /\ image' = Drawn(image, [op |-> "text", xy |-> <<text_x, text_y>>,
                              text |-> text, fill |-> text_fill, font |-> font])
    /\ calls' = Append(calls, Call("text", text))
    /\ pc' = "measureSub"
    /\ UNCHANGED <<i, font, subfont, layout, stdout, env>>

\* lines 36-39: measure the subtitle and compute its position
MeasureSub ==
    /\ pc = "measureSub"
    /\ \E b \in textbbox(subtext, subfont) :
       LET sw == b[3] - b[1]
       IN /\ bbox2' = b
          /\ metrics' = [metrics EXCEPT ![<<subtext, subfont>>] = b]
          /\ subtext_width' = sw
          /\ subtext_x' = Centered(width, sw)
          /\ subtext_y' = SubtextY(text_y, text_height)
    /\ calls' = Append(calls, Call("textbbox", subtext))
    /\ pc' = "drawSub"
    /\ UNCHANGED <<image, i, font, subfont, bbox, text_width, text_height,
                   text_x, text_y, stdout, disk>>

\* line 41: draw the subtitle
DrawSub ==
    /\ pc = "drawSub"
    /\ image' = Drawn(image, [op |-> "text", xy |-> <<subtext_x, subtext_y>>,
                              text |-> subtext, fill |-> subtext_fill,
                              font |-> subfont])
    /\ calls' = Append(calls, Call("text", subtext))
    /\ pc' = "save"
    /\ UNCHANGED <<i, font, subfont, layout, stdout, env>>

\* line 44: the save succeeds and replaces whatever the file held
SaveOK ==
    /\ pc = "save"
    /\ CanSave(file, writable)
    /\ file' = <<image>>
    /\ calls' = Append(calls, Call("save", OutputPath))
    /\ pc' = "print"
    /\ UNCHANGED <<image, i, font, subfont, layout, stdout, fontFiles,
                   writable, metrics, prev, run>>

\* mutant: the save error is swallowed and the script goes on to line 45
SaveFailSwallowed ==
    /\ pc = "save"
    /\ ~CanSave(file, writable)
    /\ calls' = Append(calls, Call("save", OutputPath))
    /\ pc' = "print"
    /\ UNCHANGED <<image, i, font, subfont, layout, stdout, env>>

\* line 44 raises; nothing catches it, the interpreter exits
SaveFail ==
    /\ pc = "save"
    /\ ~CanSave(file, writable)
    /\ calls' = Append(calls, Call("save", OutputPath))
    /\ pc' = "error"
    /\ UNCHANGED <<image, i, font, subfont, layout, stdout, env>>

\* line 45: confirmation message
EmitConfirmation ==
    /\ pc = "print"
    /\ stdout' = Append(stdout, Confirmation)
    /\ calls' = Append(calls, Call("print", ""))
    /\ pc' = "done"
    /\ UNCHANGED <<image, i, font, subfont, layout, env>>

\* the script is started again: a fresh process, the disk keeps the file,
\* the font files and the permissions may have changed in between
NextRun ==
    /\ pc \in {"done", "error"}
    /\ run < MaxRuns
    /\ prev' = <<[pc |-> pc, image |-> image, font |-> font,
                  subfont |-> subfont, bbox |-> bbox, bbox2 |-> bbox2,
                  fontFiles |-> fontFiles, calls |-> calls]>>
    /\ run' = run + 1
    /\ pc' = "new"
    /\ image' = NoImage
    /\ i' = 0
    /\ font' = NoFont
    /\ subfont' = NoFont
    /\ bbox' = NoBBox /\ text_width' = 0 /\ text_height' = 0
    /\ text_x' = 0 /\ text_y' = 0
    /\ bbox2' = NoBBox /\ subtext_width' = 0
    /\ subtext_x' = 0 /\ subtext_y' = 0
    /\ stdout' = <<>>
    /\ calls' = <<>>
    /\ fontFiles' \in SUBSET FontPaths
    /\ writable' \in BOOLEAN
    /\ UNCHANGED <<file, metrics>>

\* one step of the running script
Step ==
    \/ NewImage
    \/ DrawBorder
    \/ BorderDone
    \/ LoadBoldOK
    \/ LoadBoldFail
    \/ LoadRegularOK
    \/ LoadRegularFail
    \/ Fallback
    \/ MeasureTitle
    \/ DrawTitle
    \/ MeasureSub
    \/ DrawSub
    \/ SaveOK
    \/ SaveFail
    \/ EmitConfirmation

Next == Step \/ NextRun

Spec == Init /\ [][Next]_vars

\* the interpreter always executes the next statement of a started script
FairSpec == Spec /\ WF_vars(Step)

\* ================================================================ claims
\* positions after the try/except of lines 18-24
FontsSelected ==
    pc \in {"measureTitle", "drawTitle", "measureSub", "drawSub",
            "save", "print", "done", "error"}

\* positions after the subtitle has been drawn
DrawingComplete == pc \in {"save", "print", "done", "error"}

LastCall == calls[Len(calls)]

CallsOf(ops) == {k \in DOMAIN calls : calls[k].op \in ops}

\* the step of the fixed order a library call belongs to
PhaseOf(c) ==
    CASE c.op = "Image.new" -> 1
      [] c.op = "rectangle" -> 2
      [] c.op \in {"truetype", "load_default"} -> 3
      [] c.op \in {"textbbox", "text"} /\ c.arg = "HYBRID SYNDICATE" -> 4
      [] c.op \in {"textbbox", "text"} /\ c.arg # "HYBRID SYNDICATE" -> 5
      [] c.op = "save" -> 6
      [] c.op = "print" -> 7

\* C1: a failed font load never ends the run: whatever fonts are readable, a
\* run that reaches the font loading reaches the save step, and the only step
\* from which a run ends in an uncaught error is the save step.
C1_FontFailureNeverAborts ==
    /\ [][pc' = "error" => pc = "save"]_vars
    /\ (pc = "loadBold") ~> (pc = "save")

\* the bold font loaded, the regular one did not, and the run went past save
C1_Witness ==
    /\ pc = "print"
    /\ fontFiles = {BoldPath}
    /\ font = DefaultFont
    /\ LastCall.op = "save"

\* C2: once the fonts are selected they are either the preferred pair (bold 60,
\* regular 24) or both the built-in font; when the bold font loads and the
\* regular one fails, the title is drawn with the built-in font too.
C2_FontsNeverMixed ==
    /\ FontsSelected =>
          \/ /\ font = [kind |-> "truetype", path |-> BoldPath, size |-> 60]
             /\ subfont = [kind |-> "truetype", path |-> RegularPath, size |-> 24]
          \/ /\ font.kind = "default"
             /\ subfont.kind = "default"
    /\ (fontFiles = {BoldPath} /\ Len(image.ops) >= 6) =>
          image.ops[6].font.kind = "default"

\* the bold font had been loaded and was discarded; the title is drawn
C2_Witness ==
    /\ fontFiles = {BoldPath}
    /\ Len(image.ops) = 7
    /\ image.ops[6].text = text
    /\ image.ops[6].font = DefaultFont
    /\ image.ops[7].font = DefaultFont

\* C3: the subtitle is drawn at y = (y the title was drawn at) + (title bbox
\* bottom - title bbox top) + 20.
C3_SubtitleBelowTitle ==
    Len(image.ops) >= 7 =>
        image.ops[7].xy[2] = image.ops[6].xy[2] + (bbox[4] - bbox[2]) + 20

\* both texts drawn, the title's box has a non-zero top
C3_Witness ==
    /\ Len(image.ops) = 7
    /\ image.ops[7].text = subtext
    /\ bbox[2] > 0
    /\ image.ops[7].xy[2] > image.ops[6].xy[2] + 20

\* C4: every text is drawn at an x for which the left margin x and the right
\* margin 800 - x - w differ by at most 1, w being the text's measured width.
C4_HorizontallyCentered ==
    \A k \in DOMAIN image.ops :
        image.ops[k].op = "text" =>
            LET b == IF k = 6 THEN bbox ELSE bbox2
                w == b[3] - b[1]
                x == image.ops[k].xy[1]
                left == x
                right == 800 - x - w
            IN  left - right \in -1..1

\* an odd title width and a subtitle wider than the canvas
C4_Witness ==
    /\ Len(image.ops) = 7
    /\ (bbox[3] - bbox[1]) % 2 = 1
    /\ bbox2[3] - bbox2[1] > 800
    /\ image.ops[7].xy[1] < 0

\* C5: the border is exactly five rectangle outlines, the k-th at inset k-1
\* with corners (k-1, k-1) and (799-(k-1), 399-(k-1)), all in the same colour,
\* each well-formed and inside the canvas; no other rectangle is ever drawn.
C5_BorderRectangles ==
    /\ \A k \in DOMAIN image.ops :
          image.ops[k].op = "rectangle" =>
              LET r == image.ops[k].xy
              IN  /\ k <= 5
                  /\ r = <<k - 1, k - 1, 799 - (k - 1), 399 - (k - 1)>>
                  /\ image.ops[k].outline = image.ops[1].outline
                  /\ 0 <= r[1] /\ r[1] <= r[3] /\ r[3] < image.w
                  /\ 0 <= r[2] /\ r[2] <= r[4] /\ r[4] < image.h
    /\ pc \notin {"new", "border"} =>
          Cardinality({k \in DOMAIN image.ops :
                          image.ops[k].op = "rectangle"}) = 5

\* the border loop has just finished
C5_Witness ==
    /\ pc = "loadBold"
    /\ Len(image.ops) = 5
    /\ image.ops[5].xy = <<4, 4, 795, 395>>

\* C6: from allocation on the canvas is 800x400 whatever is drawn on it, and a
\* run that completes leaves an output file holding that 800x400 canvas.
C6_SavedCanvasSize ==
    /\ pc # "new" => image.w = 800 /\ image.h = 400
    /\ pc = "done" =>
          /\ file # <<>>
          /\ file[1].w = 800 /\ file[1].h = 400
          /\ Len(file[1].ops) = 7

\* completed runs in both font branches
C6_Witness ==
    /\ pc = "done"
    /\ run = 2
    /\ font = DefaultFont
    /\ prev[1].font = BoldFont
    /\ prev[1].pc = "done"
    /\ file = <<image>>

\* C7: a later run overwrites the file: its save never fails while the path is
\* writable (an existing file is no obstacle), after it the file holds that
\* run's canvas, and this equals the previous run's output when the same font
\* files were readable in both runs.
C7_SecondRunOverwrites ==
    run >= 2 =>
        /\ pc = "error" => ~writable
        /\ pc \in {"print", "done"} => file = <<image>>
        /\ (pc = "done" /\ prev[1].pc = "done"
                /\ prev[1].fontFiles = fontFiles) =>
              file = <<prev[1].image>>

\* two completed runs in succession with the same font files
C7_Witness ==
    /\ run = 2
    /\ pc = "done"
    /\ prev[1].pc = "done"
    /\ prev[1].fontFiles = fontFiles
    /\ file = <<image>>

\* C8: a failed save ends the run with nothing printed, in that run nothing is
\* printed afterwards, and the confirmation is printed only after the save of
\* the same run has stored the canvas.
C8_SaveFailureUnhandled ==
    /\ [](pc = "error" => stdout = <<>> /\ LastCall.op = "save")
    /\ [](stdout # <<>> =>
            /\ stdout = <<Confirmation>>
            /\ file = <<image>>
            /\ calls[Len(calls) - 1].op = "save")
    /\ [][pc = "error" => stdout' = <<>>]_vars

\* the save has failed
C8_Witness ==
    /\ pc = "error"
    /\ ~writable
    /\ LastCall = Call("save", OutputPath)
    /\ stdout = <<>>

\* C9: a run calls save at most once, on hybrid-syndicate.png, after the five
\* rectangles and both texts have been drawn and never before a draw; its
\* library calls follow the order allocation, border, font selection, title,
\* subtitle, save, confirmation.
C9_SingleWriteAfterDrawing ==
    /\ Cardinality(CallsOf({"save"})) <= 1
    /\ Cardinality(CallsOf({"Image.new"})) <= 1
    /\ \A k \in CallsOf({"save"}) :
          /\ calls[k].arg = "hybrid-syndicate.png"
          /\ \A j \in CallsOf({"rectangle", "text"}) : j < k
          /\ Cardinality(CallsOf({"rectangle"})) = 5
          /\ Cardinality(CallsOf({"text"})) = 2
    /\ \A j, k \in DOMAIN calls :
          j < k => PhaseOf(calls[j]) <= PhaseOf(calls[k])
    /\ file # <<>> /\ run = 1 => Cardinality(CallsOf({"save"})) = 1

\* a complete run with the preferred fonts: 14 library calls, save the 13th
C9_Witness ==
    /\ pc = "done"
    /\ Len(calls) = 14
    /\ calls[13].op = "save"
    /\ calls[14].op = "print"

\* C10: a run that selects the same fonts and gets the same measurements as the
\* previous run performs the same draw operations on the same canvas, whatever
\* else differs (file already present, writability, which font files exist).
C10_Deterministic ==
    (/\ run >= 2
     /\ DrawingComplete
     /\ font = prev[1].font /\ subfont = prev[1].subfont
     /\ bbox = prev[1].bbox /\ bbox2 = prev[1].bbox2) =>
        /\ image = prev[1].image
        /\ pc = "done" /\ prev[1].pc = "done" => file = <<prev[1].image>>

\* same font outcome in two runs whose other inputs all differ
C10_Witness ==
    /\ run = 2
    /\ pc = "done"
    /\ prev[1].pc = "error"
    /\ fontFiles # prev[1].fontFiles
    /\ font = prev[1].font
    /\ image = prev[1].image

====
